---- MODULE Spec2Model ----
(***************************************************************************)
(* Model of the <a-waves> custom element of js/noise.js (class AWaves):    *)
(* its life cycle (connectedCallback / disconnectedCallback), its event    *)
(* handlers, the grid construction of setLines and the per-frame update of *)
(* tick / movePoints, together with the part of the host page the element  *)
(* talks to (listener registries, the animation-frame callback map, the    *)
(* visibility flag, the scroll offset and the children of the svg).        *)
(* The last sections model the Noise class on its own and the menu, anchor *)
(* and scroll handlers of the App controller of portfolio/js/main.js.      *)
(*                                                                         *)
(* Numbers.  JavaScript numbers are IEEE doubles; here every length is an  *)
(* integer number of 1/Scale pixels and every product or quotient is       *)
(* rounded toward zero.  Ratios (cos, sin, strength, falloff) are integers *)
(* in units of 1/Scale as well.                                            *)
(***************************************************************************)
EXTENDS Integers, Sequences, FiniteSets, TLC

VARIABLES
    \* ---- host page ----
    connected,       \* the element is in the document (last life-cycle callback)
    hidden,          \* document.hidden
    scrollY,         \* window.scrollY, in pixels
    rafMap,          \* handles of the animation-frame callbacks still pending
    nextHandle,      \* the handle the next requestAnimationFrame returns
    winResize,       \* listeners of window 'resize'     (set of bound-function ids)
    winMouseMove,    \* listeners of window 'mousemove'
    elTouchMove,     \* listeners of the element's 'touchmove'
    docVisibility,   \* listeners of document 'visibilitychange' (closures)
    svgChildren,     \* number of <path> elements attached to the svg
    \* ---- fields of the AWaves instance ----
    svg,             \* this.svg is an element (TRUE) or null / undefined (FALSE)
    mouse,           \* this.mouse
    lines,           \* this.lines
    paths,           \* this.paths: the 'd' attribute of each path element
    noise,           \* this.noise
    isVisible,       \* this.isVisible
    animationFrame,  \* this.animationFrame (0: null or undefined)
    bounding,        \* this.bounding
    bindGen,         \* identity of this.onResize / onMouseMove / onTouchMove
    \* ---- history of the run ----
    lastCall,        \* name of the last callback the host made
    unmounts,        \* disconnectedCallback calls in a row ending the run, up to 2
    threw,           \* the last call ended in an uncaught exception
    didWork,         \* the last call ran the update and render work of tick
    hadOffset,       \* some point had a cursor offset or velocity before the last call
    ptrSinceMount,   \* updateMousePosition has run since the last mount
    ptrSinceRebuild, \* updateMousePosition has run since the grid was last built
    ptrFirst,        \* what the last call was the first updateMousePosition after
    rawLog,          \* the raw pointer position at the last active tick (tick)
                     \* and the one a first pointer call has snapped to since (snap)
    tickFrom,        \* if the last call ran the work of tick: what rawLog held
                     \* when it began (prev, took)
    \* ---- a Noise instance on its own, and the calls made on it ----
    gen,             \* the instance: its perm and permMod12
    genSeed,         \* the seed it was constructed from (NoSeed: a given table)
    genId,           \* which instance it is, counting the constructor calls
    sampled,         \* the last perlin2 call: arguments, cell, hashes and result
    earlier,         \* some perlin2 call made before the last one
    \* ---- the page of the App controller (portfolio/js/main.js) ----
    menuBtnActive,   \* menuBtn has the class 'active'
    mobileMenuActive, \* mobileMenu has the class 'active'
    bodyOverflow,    \* document.body.style.overflow
    navScrolled,     \* nav has the class 'nav--scrolled'
    lastScroll,      \* lastScroll of setupNavigation
    ticking          \* ticking of setupNavigation: its frame callback is pending

host == <<connected, hidden, scrollY, rafMap, nextHandle, winResize,
          winMouseMove, elTouchMove, docVisibility, svgChildren>>
fields == <<svg, mouse, lines, paths, noise, isVisible, animationFrame, bounding,
            bindGen>>
history == <<lastCall, unmounts, threw, didWork, hadOffset, ptrSinceMount, ptrSinceRebuild,
             ptrFirst, rawLog, tickFrom>>
bench == <<gen, genSeed, genId, sampled, earlier>>
app == <<menuBtnActive, mobileMenuActive, bodyOverflow, navScrolled, lastScroll, ticking>>
vars == <<host, fields, history, bench, app>>

-----------------------------------------------------------------------------
(* Bounds of the model *)

\* handles requestAnimationFrame may hand out (one per tick call)
MaxHandle == 3
\* connectedCallback calls that find the svg
MaxMounts == 2
\* handles requestAnimationFrame may hand out in the teleporting-pointer runs
MaxTeleportHandle == 5
\* frame callbacks that run after the pointer has come to rest
MaxSettleFrames == 120
\* constructor calls made on the Noise instance on its own
MaxInstances == 2

\* resolution of the fixed-point numbers: units per pixel
Scale == 10 ^ 3

-----------------------------------------------------------------------------
(* Program constants *)

xGap == 12
yGap == 36
PadWidth == 200
PadHeight == 60
MinRadius == 175
MaxVelocity == 100
MaxOffset == 80
\* main.js: the scroll offset beyond which the nav gets its background, and
\* the height of the nav that an anchor's target is kept clear of
ScrolledBeyond == 50
navHeight == 100

-----------------------------------------------------------------------------
(* Arithmetic *)

Abs(a) == IF a < 0 THEN -a ELSE a
Sign(a) == IF a < 0 THEN -1 ELSE 1
Min(a, b) == IF a < b THEN a ELSE b
Max(a, b) == IF a > b THEN a ELSE b

\* a / b rounded toward zero (b > 0)
TDiv(a, b) == IF a >= 0 THEN a \div b ELSE -((-a) \div b)

\* a * (num / den), for the decimal literals of the source (0.08 is 8/100)
Frac(a, num, den) == TDiv(a * num, den)

\* the product of two fixed-point numbers, computed without leaving 32 bits
FMul(a, b) ==
    LET aa == Abs(a)
        bb == Abs(b)
    IN  Sign(a) * Sign(b) * ((aa \div Scale) * bb + ((aa % Scale) * bb) \div Scale)

\* the quotient a / b of two fixed-point numbers, 0 <= a, 0 < b
FDiv(a, b) == (a \div b) * Scale + ((a % b) * Scale) \div b

\* Math.ceil(a / b), b > 0
Ceil(a, b) == -((-a) \div b)

\* Newton's iteration for the integer square root of n, from a guess r >= sqrt(n)
RECURSIVE SqrtIter(_, _)
SqrtIter(n, r) ==
    LET q == (r + n \div r) \div 2
    IN  IF q >= r THEN r ELSE SqrtIter(n, q)

\* Math.hypot(dx, dy) rounded down; large arguments are scaled down before
\* squaring, and the first guess a + b/2 + 1 (a >= b) is above the root
Hypot(dx, dy) ==
    LET hi == Max(Abs(dx), Abs(dy))
        lo == Min(Abs(dx), Abs(dy))
        k  == (hi \div 30000) + 1
        a  == hi \div k
        b  == lo \div k
    IN  IF hi = 0 THEN 0 ELSE k * SqrtIter(a * a + b * b, a + b \div 2 + 1)

\* Math.cos(t) for a fixed-point angle |t| <= 1 radian: 1 - t^2/2 + t^4/24
CosSmall(t) ==
    LET t2 == FMul(t, t)
    IN  Scale - TDiv(t2, 2) + TDiv(FMul(t2, t2), 24)

\* Math.atan2(dy, dx), kept as the pair (Math.cos, Math.sin) of the angle,
\* the only two things the program computes from it; atan2(0, 0) is 0
Atan2(dy, dx) ==
    LET d == Hypot(dx, dy)
    IN  IF d = 0 THEN [cos |-> Scale, sin |-> 0]
        ELSE [cos |-> Sign(dx) * Min(Scale, FDiv(Abs(dx), d)),
              sin |-> Sign(dy) * Min(Scale, FDiv(Abs(dy), d))]

\* a quarter turn, a half turn and a full turn, in fixed-point radians
HalfPi == 1571
Pi == 3142
TwoPi == 6283

\* Math.sin(t) for 0 <= t <= HalfPi: t - t^3/6 + t^5/120 - t^7/5040 + t^9/362880
SinQ(t) ==
    LET t2 == FMul(t, t)
        t3 == FMul(t2, t)
        t5 == FMul(t3, t2)
        t7 == FMul(t5, t2)
        t9 == FMul(t7, t2)
    IN  Min(Scale, t - TDiv(t3, 6) + TDiv(t5, 120) - TDiv(t7, 5040) + TDiv(t9, 362880))

\* the values of SinQ, computed once
sinTable == [t \in 0..HalfPi |-> SinQ(t)]

\* Math.sin(t) for any fixed-point angle t, by the symmetries of the sine
Sin(t) ==
    LET r == t % TwoPi
    IN  IF r <= HalfPi THEN sinTable[r]
        ELSE IF r <= Pi THEN sinTable[Pi - r]
        ELSE IF r <= Pi + HalfPi THEN 0 - sinTable[r - Pi]
        ELSE 0 - sinTable[TwoPi - r]

\* Math.cos(t) for any fixed-point angle t
Cos(t) == Sin(t + HalfPi)

\* Math.round(c * 10) / 10: c rounded to a tenth of a pixel, halves upward
RoundTenth(c) == ((c + Scale \div 20) \div (Scale \div 10)) * (Scale \div 10)

-----------------------------------------------------------------------------
(* class Noise.  A table is a sequence of 512 entries; entry i of the      *)
(* source (0-based) is element i + 1 here.  A seed in [0, 1) is an integer *)
(* number of 1/SeedScale.                                                   *)

SeedScale == 2 ^ 16
Multiplier == 16807
Modulus == 2147483647

grad3 ==
    << <<1, 1, 0>>, <<-1, 1, 0>>, <<1, -1, 0>>, <<-1, -1, 0>>,
       <<1, 0, 1>>, <<-1, 0, 1>>, <<1, 0, -1>>, <<-1, 0, -1>>,
       <<0, 1, 1>>, <<0, -1, 1>>, <<0, 1, -1>>, <<0, -1, -1>> >>

\* seed % 2147483647 for a fixed-point seed
SeedMod(seed) ==
    IF seed \div SeedScale < Modulus THEN seed
    ELSE ((seed \div SeedScale) % Modulus) * SeedScale + (seed % SeedScale)

\* one pass of the first loop of the constructor: p[i] from the running seed
fillStep(st) ==
    [p    |-> Append(st.p, (st.seed * 256) \div SeedScale),
     seed |-> TDiv(SeedMod(st.seed * Multiplier), Modulus)]

\* n passes of the first loop (by halves, the first half computed before
\* the second begins)
RECURSIVE fillP(_, _)
fillP(st, n) ==
    IF n = 1 THEN fillStep(st)
    ELSE LET half == fillP(st, n \div 2)
         IN  IF Len(half.p) > 0 THEN fillP(half, n - n \div 2) ELSE half

\* one pass of the second loop of the constructor, at index st.i (0-based)
shuffleStep(st) ==
    LET seed1 == SeedMod(st.seed * Multiplier)
        j     == (TDiv(seed1, Modulus) * (st.i + 1)) \div SeedScale
    IN  [p    |-> [st.p EXCEPT ![st.i + 1] = st.p[j + 1], ![j + 1] = st.p[st.i + 1]],
         seed |-> seed1,
         i    |-> st.i - 1]

\* n passes of the second loop
RECURSIVE shuffleP(_, _)
shuffleP(st, n) ==
    IF n = 1 THEN shuffleStep(st)
    ELSE LET half == shuffleP(st, n \div 2)
         IN  IF Len(half.p) > 0 THEN shuffleP(half, n - n \div 2) ELSE half

\* a doubling that reduces the entries modulo 13
tablesMod13(p) ==
    LET perm == [i \in 1..512 |-> p[((i - 1) % 256) + 1]]
    IN  [perm |-> perm, permMod12 |-> [i \in 1..512 |-> perm[i] % 13]]

\* the last loop of the constructor: perm is p doubled (i & 255), and
\* permMod12 is perm modulo 12
tables(p) ==
    LET perm == [i \in 1..512 |-> p[((i - 1) % 256) + 1]]
    IN  [perm |-> perm, permMod12 |-> [i \in 1..512 |-> perm[i] % 12]]

\* new Noise(seed)
Noise(seed) ==
    LET filled == fillP([p |-> <<>>, seed |-> seed], 256)
        p      == shuffleP([p |-> filled.p, seed |-> filled.seed, i |-> 255], 255).p
    IN  tables(p)

dot(g, x, y) == g[1] * x + g[2] * y

fade(t) == FMul(FMul(FMul(t, t), t), FMul(t, FMul(t, 6 * Scale) - 15 * Scale) + 10 * Scale)

\* the values of fade on [0, 1), computed once
fadeTable == [t \in 0..(Scale - 1) |-> fade(t)]

\* an interpolation that adds t * b instead of t * (b - a)
lerpSum(t, a, b) == a + FMul(t, b)

lerp(t, a, b) == a + FMul(t, b - a)

\* Math.floor(x) & 255 for a fixed-point x of either sign
cell(x) == (x \div Scale) % 256

\* the cell of (x, y) and the hashes A and B of its corners
corners(nz, x, y) ==
    LET X == cell(x)
        Y == cell(y)
    IN  [X |-> X, Y |-> Y, A |-> nz.perm[X + 1] + Y, B |-> nz.perm[X + 2] + Y]

\* nz.perlin2(x, y) for fixed-point coordinates x, y
perlin2(nz, x, y) ==
    LET c  == corners(nz, x, y)
        A  == c.A
        B  == c.B
        xf == x % Scale
        yf == y % Scale
        u  == fadeTable[xf]
        v  == fadeTable[yf]
    IN  lerp(v,
             lerp(u, dot(grad3[nz.permMod12[A + 1] + 1], xf, yf),
                     dot(grad3[nz.permMod12[B + 1] + 1], xf - Scale, yf)),
             lerp(u, dot(grad3[nz.permMod12[A + 2] + 1], xf, yf - Scale),
                     dot(grad3[nz.permMod12[B + 2] + 1], xf - Scale, yf - Scale)))

-----------------------------------------------------------------------------
(* Inputs of the host page *)

\* sizes (width, height) the container can have, in pixels
Sizes == {<<10, 10>>, <<40, 20>>}
\* the size of the container when the element is inserted, in pixels
MountSize == <<10, 10>>
\* the sizes a window resize gives the container, in pixels
ResizeSizes == {<<22, 10>>}
\* on-screen (client) positions of the pointer, in pixels
Pointers == {[x |-> 60, y |-> 105], [x |-> 1060, y |-> 105]}
\* touch lists of the touchmove events (client positions), in pixels
Touches == {<<>>, <<[x |-> 60, y |-> 105]>>}
\* vertical scroll offsets of the page, in pixels
Scrolls == {0, 30}
\* values of Math.random(), in units of 1/SeedScale
Seeds == {30000}
\* the seeds, in [0, 1), the Noise instance on its own is constructed from
NoiseSeeds == {0, 30000, SeedScale - 1}
\* the generators new Noise(seed) builds, by seed
NoiseOf == [seed \in Seeds \cup NoiseSeeds |-> Noise(seed)]
\* a permutation of 0..255: the identity with four pairs exchanged
GivenP(i) ==
    CASE i = 0 -> 12 [] i = 12 -> 0
      [] i = 13 -> 14 [] i = 14 -> 13
      [] i = 1 -> 25 [] i = 25 -> 1
      [] i = 26 -> 27 [] i = 27 -> 26
      [] OTHER -> i
\* the tables of an instance whose p is GivenP
GivenTable == tables([i \in 1..256 |-> GivenP(i - 1)])
\* the coordinates perlin2 is called with on the instance on its own,
\* in units of 1/Scale
Coords == {0 - 500, 250, 500, 12500}
\* milliseconds between two animation frames
FrameMs == 16
\* the timestamps the host can pass to the frame callback of handle h
Clock(h) == {FrameMs * h}
\* page position of the container's top-left corner, in pixels
Origin == [left |-> 100, top |-> 100]

\* getBoundingClientRect() of the container: viewport coordinates
ClientRect(size) ==
    [left   |-> Origin.left * Scale,
     top    |-> (Origin.top - scrollY) * Scale,
     width  |-> size[1] * Scale,
     height |-> size[2] * Scale]

-----------------------------------------------------------------------------
(* Pure parts of AWaves *)

\* the mouse record connectedCallback creates
InitMouse ==
    [x |-> -10 * Scale, y |-> 0, lx |-> 0, ly |-> 0, sx |-> 0, sy |-> 0,
     v |-> 0, vs |-> 0, a |-> [cos |-> Scale, sin |-> 0], set |-> FALSE]

ZeroCursor == [x |-> 0, y |-> 0, vx |-> 0, vy |-> 0]
ZeroWave == [x |-> 0, y |-> 0]

\* a setLines that carries the cursor state of the point it replaces over
setLinesKeep(width, height) ==
    LET totalLines  == Ceil(width + PadWidth * Scale, xGap * Scale)
        totalPoints == Ceil(height + PadHeight * Scale, yGap * Scale)
        xStart      == TDiv(width - xGap * Scale * totalLines, 2)
        yStart      == TDiv(height - yGap * Scale * totalPoints, 2)
    IN  [i \in 1..(totalLines + 1) |->
            [j \in 1..(totalPoints + 1) |->
                [x      |-> xStart + xGap * Scale * (i - 1),
                 y      |-> yStart + yGap * Scale * (j - 1),
                 wave   |-> ZeroWave,
                 cursor |-> IF i \in DOMAIN lines /\ j \in DOMAIN lines[i]
                            THEN lines[i][j].cursor ELSE ZeroCursor]]]

\* a setLines whose loops stop one short (i < totalLines, j < totalPoints)
setLinesShort(width, height) ==
    LET totalLines  == Ceil(width + PadWidth * Scale, xGap * Scale)
        totalPoints == Ceil(height + PadHeight * Scale, yGap * Scale)
        xStart      == TDiv(width - xGap * Scale * totalLines, 2)
        yStart      == TDiv(height - yGap * Scale * totalPoints, 2)
    IN  [i \in 1..totalLines |->
            [j \in 1..totalPoints |->
                [x      |-> xStart + xGap * Scale * (i - 1),
                 y      |-> yStart + yGap * Scale * (j - 1),
                 wave   |-> ZeroWave,
                 cursor |-> ZeroCursor]]]

\* a setLines that centres by the number of lines and points, not of gaps
setLinesOffCentre(width, height) ==
    LET totalLines  == Ceil(width + PadWidth * Scale, xGap * Scale)
        totalPoints == Ceil(height + PadHeight * Scale, yGap * Scale)
        xStart      == TDiv(width - xGap * Scale * (totalLines + 1), 2)
        yStart      == TDiv(height - yGap * Scale * (totalPoints + 1), 2)
    IN  [i \in 1..(totalLines + 1) |->
            [j \in 1..(totalPoints + 1) |->
                [x      |-> xStart + xGap * Scale * (i - 1),
                 y      |-> yStart + yGap * Scale * (j - 1),
                 wave   |-> ZeroWave,
                 cursor |-> ZeroCursor]]]

\* the grid setLines builds for a bounding box of width x height
setLines(width, height) ==
    LET oWidth      == width + PadWidth * Scale
        oHeight     == height + PadHeight * Scale
        totalLines  == Ceil(oWidth, xGap * Scale)
        totalPoints == Ceil(oHeight, yGap * Scale)
        xStart      == TDiv(width - xGap * Scale * totalLines, 2)
        yStart      == TDiv(height - yGap * Scale * totalPoints, 2)
    IN  [i \in 1..(totalLines + 1) |->
            [j \in 1..(totalPoints + 1) |->
                [x      |-> xStart + xGap * Scale * (i - 1),
                 y      |-> yStart + yGap * Scale * (j - 1),
                 wave   |-> ZeroWave,
                 cursor |-> ZeroCursor]]]

\* path elements that are created with a geometry string already written
NewPathsDrawn(n) == [i \in 1..n |-> <<[op |-> "M", x |-> 0, y |-> 0]>>]

\* the path elements setLines creates, one per line; a path element is
\* modelled by its 'd' attribute (a sequence of commands), not yet set
NewPaths(n) == [i \in 1..n |-> <<>>]

\* an updateMousePosition that snaps on every call
updateMousePositionSnap(m, x, y) ==
    LET mx == x * Scale - bounding.left
        my == y * Scale - bounding.top + scrollY * Scale
    IN  [m EXCEPT !.x = mx, !.y = my, !.sx = mx, !.sy = my,
                  !.lx = mx, !.ly = my, !.set = TRUE]

\* an updateMousePosition that also clears the velocities
updateMousePositionStill(m, x, y) ==
    LET mx == x * Scale - bounding.left
        my == y * Scale - bounding.top + scrollY * Scale
    IN  IF ~m.set
        THEN [m EXCEPT !.x = mx, !.y = my, !.sx = mx, !.sy = my,
                       !.lx = mx, !.ly = my, !.v = 0, !.vs = 0, !.set = TRUE]
        ELSE [m EXCEPT !.x = mx, !.y = my, !.v = 0, !.vs = 0]

\* updateMousePosition(x, y) applied to mouse record m; x, y in pixels
updateMousePosition(m, x, y) ==
    LET mx == x * Scale - bounding.left
        my == y * Scale - bounding.top + scrollY * Scale
    IN  IF ~m.set
        THEN [m EXCEPT !.x = mx, !.y = my, !.sx = mx, !.sy = my,
                       !.lx = mx, !.ly = my, !.set = TRUE]
        ELSE [m EXCEPT !.x = mx, !.y = my]

\* a physics step that leaves the new offset unclamped
ClampOff(c) == c

\* the clamp that ends the physics step of a point
Clamp(c) == Min(MaxOffset * Scale, Max(-MaxOffset * Scale, c))

\* an influence test every point passes
inRangeAlways(d, l) == TRUE

\* the point at distance d is within the influence radius l
inRange(d, l) == d < l

\* what the cursor adds to the cursor velocity of point p in a frame, for
\* the mouse record m: nothing unless p is within the influence radius
cursorForce(p, m) ==
    LET dx == p.x - m.sx
        dy == p.y - m.sy
        d  == Hypot(dx, dy)
        l  == Max(MinRadius * Scale, m.vs)
        s  == Scale - FDiv(d, l)
        f  == FMul(CosSmall(Frac(d, 1, 1000)), s)
    IN  IF inRange(d, l)
        THEN [x |-> Frac(FMul(FMul(FMul(m.a.cos, f), l), m.vs), 6, 10000),
              y |-> Frac(FMul(FMul(FMul(m.a.sin, f), l), m.vs), 6, 10000)]
        ELSE [x |-> 0, y |-> 0]

\* a physics step that starts every point from rest
movePointReset(p, m, nz, time) ==
    LET noiseValue == 12 * perlin2(nz, Frac(p.x + time * 15, 2, 1000),
                                       Frac(p.y + time * 8, 2, 1000))
        force == cursorForce(p, m)
        vx3 == Frac(force.x, 92, 100)
        vy3 == Frac(force.y, 92, 100)
    IN  [p EXCEPT !.wave   = [x |-> 28 * Cos(noiseValue), y |-> 14 * Sin(noiseValue)],
                  !.cursor = [x  |-> Clamp(vx3 * 2),
                              y  |-> Clamp(vy3 * 2),
                              vx |-> vx3,
                              vy |-> vy3]]

\* the body of movePoints(time) for one point p, the mouse record m and the
\* generator nz; time in milliseconds
movePoint(p, m, nz, time) ==
    LET noiseValue == 12 * perlin2(nz, Frac(p.x + time * 15, 2, 1000),
                                       Frac(p.y + time * 8, 2, 1000))
        force == cursorForce(p, m)
        vx1 == p.cursor.vx + force.x
        vy1 == p.cursor.vy + force.y
        vx2 == vx1 + Frac(0 - p.cursor.x, 4, 1000)
        vy2 == vy1 + Frac(0 - p.cursor.y, 4, 1000)
        vx3 == Frac(vx2, 92, 100)
        vy3 == Frac(vy2, 92, 100)
    IN  [p EXCEPT !.wave   = [x |-> 28 * Cos(noiseValue), y |-> 14 * Sin(noiseValue)],
                  !.cursor = [x  |-> Clamp(p.cursor.x + vx3 * 2),
                              y  |-> Clamp(p.cursor.y + vy3 * 2),
                              vx |-> vx3,
                              vy |-> vy3]]

movePoints(ls, m, nz, time) ==
    [i \in DOMAIN ls |-> [j \in DOMAIN ls[i] |-> movePoint(ls[i][j], m, nz, time)]]

\* moved(point, withCursorForce)
moved(point, withCursorForce) ==
    [x |-> RoundTenth(point.x + point.wave.x + (IF withCursorForce THEN point.cursor.x ELSE 0)),
     y |-> RoundTenth(point.y + point.wave.y + (IF withCursorForce THEN point.cursor.y ELSE 0))]

\* the string drawLines builds for one line, as its sequence of commands
pathData(points) ==
    LET p0 == moved(points[1], FALSE)
    IN  <<[op |-> "M", x |-> p0.x, y |-> p0.y]>> \o
        [k \in 1..Len(points) |->
            LET p1 == moved(points[k], k # Len(points))
            IN  [op |-> "L", x |-> p1.x, y |-> p1.y]]

\* drawLines on grid ls: the 'd' attribute every path element gets
drawLines(ls) == [i \in DOMAIN ls |-> pathData(ls[i])]

\* a tracking step that forgets the pointer's speed
trackMouseStill(m) ==
    [m EXCEPT !.sx = m.sx + Frac(m.x - m.sx, 8, 100),
              !.sy = m.sy + Frac(m.y - m.sy, 8, 100),
              !.v  = 0,
              !.vs = 0,
              !.lx = m.x,
              !.ly = m.y,
              !.a  = Atan2(m.y - m.ly, m.x - m.lx)]

\* a tracking step that leaves the smoothed velocity uncapped
trackMouseUncapped(m) ==
    LET dx == m.x - m.lx
        dy == m.y - m.ly
        d  == Hypot(dx, dy)
    IN  [m EXCEPT !.sx = m.sx + Frac(m.x - m.sx, 8, 100),
                  !.sy = m.sy + Frac(m.y - m.sy, 8, 100),
                  !.v  = d,
                  !.vs = m.vs + Frac(d - m.vs, 1, 10),
                  !.lx = m.x,
                  !.ly = m.y,
                  !.a  = Atan2(dy, dx)]

\* a tracking step that measures the speed from the smoothed position
trackMouseFromSmoothed(m) ==
    LET dx == m.x - m.lx
        dy == m.y - m.ly
        d  == Hypot(m.x - m.sx, m.y - m.sy)
    IN  [m EXCEPT !.sx = m.sx + Frac(m.x - m.sx, 8, 100),
                  !.sy = m.sy + Frac(m.y - m.sy, 8, 100),
                  !.v  = d,
                  !.vs = Min(MaxVelocity * Scale, m.vs + Frac(d - m.vs, 1, 10)),
                  !.lx = m.x,
                  !.ly = m.y,
                  !.a  = Atan2(dy, dx)]

\* the cursor smoothing, velocity and angle update of tick
trackMouse(m) ==
    LET dx == m.x - m.lx
        dy == m.y - m.ly
        d  == Hypot(dx, dy)
    IN  [m EXCEPT !.sx = m.sx + Frac(m.x - m.sx, 8, 100),
                  !.sy = m.sy + Frac(m.y - m.sy, 8, 100),
                  !.v  = d,
                  !.vs = Min(MaxVelocity * Scale, m.vs + Frac(d - m.vs, 1, 10)),
                  !.lx = m.x,
                  !.ly = m.y,
                  !.a  = Atan2(dy, dx)]

\* some point of ls carries a cursor offset or a cursor velocity
Displaced(ls) ==
    \E i \in DOMAIN ls : \E j \in DOMAIN ls[i] : ls[i][j].cursor # ZeroCursor

\* the value of tickFrom after a call that did not run the work of tick
NoTick == [prev |-> [x |-> 0, y |-> 0], took |-> <<>>]

-----------------------------------------------------------------------------
(* Initial state: the element is constructed and not yet connected.  The   *)
(* instance fields do not exist before the first connectedCallback that    *)
(* finds the svg; nothing reads them before (no listener is registered and *)
(* no frame is pending), so they start at the values that call gives them. *)

ElementInit ==
    /\ connected = FALSE
    /\ hidden = FALSE
    /\ scrollY = 0
    /\ rafMap = {}
    /\ nextHandle = 1
    /\ winResize = {}
    /\ winMouseMove = {}
    /\ elTouchMove = {}
    /\ docVisibility = {}
    /\ svgChildren = 0
    /\ svg = FALSE
    /\ mouse = InitMouse
    /\ lines = <<>>
    /\ paths = <<>>
    /\ noise = [perm |-> <<>>, permMod12 |-> <<>>]
    /\ isVisible = TRUE
    /\ animationFrame = 0
    /\ bounding = [left |-> 0, top |-> 0, width |-> 0, height |-> 0]
    /\ bindGen = 0
    /\ lastCall = "constructor"
    /\ unmounts = 0
    /\ threw = FALSE
    /\ didWork = FALSE
    /\ hadOffset = FALSE
    /\ ptrSinceMount = FALSE
    /\ ptrSinceRebuild = FALSE
    /\ ptrFirst = "none"
    /\ rawLog = [tick |-> [x |-> InitMouse.x, y |-> InitMouse.y], snap |-> <<>>]
    /\ tickFrom = NoTick

\* the marker of an instance that was not constructed from a seed
NoSeed == 0 - 1

\* no Noise instance is under test
BenchIdle ==
    /\ gen = [perm |-> <<>>, permMod12 |-> <<>>]
    /\ genSeed = NoSeed
    /\ genId = 0
    /\ sampled = <<>>
    /\ earlier = <<>>

\* the page after new App(): menu closed, scrolling free, page at the top
AppInit ==
    /\ menuBtnActive = FALSE
    /\ mobileMenuActive = FALSE
    /\ bodyOverflow = ""
    /\ navScrolled = FALSE
    /\ lastScroll = 0
    /\ ticking = FALSE

Init == ElementInit /\ BenchIdle /\ AppInit

\* the log of raw positions after an active tick on mouse record m
Logged(m) == [tick |-> [x |-> m.x, y |-> m.y], snap |-> <<>>]

\* history kept by a call that reaches updateMousePosition
Pointed ==
    /\ ptrSinceMount' = TRUE
    /\ ptrSinceRebuild' = TRUE
    /\ ptrFirst' = IF ~ptrSinceMount THEN "mount"
                   ELSE IF ~ptrSinceRebuild THEN "rebuild" ELSE "none"
    /\ rawLog' = IF ~mouse.set
                 THEN [rawLog EXCEPT !.snap = <<[x |-> mouse'.x, y |-> mouse'.y]>>]
                 ELSE rawLog

\* history kept by every call
Called(name) ==
    /\ lastCall' = name
    /\ unmounts' = IF name = "disconnectedCallback" THEN Min(2, unmounts + 1) ELSE 0
    /\ hadOffset' = Displaced(lines)
    /\ UNCHANGED <<bench, app>>

-----------------------------------------------------------------------------
(* Operations *)

\* a tick whose hidden-page branch returns without requesting a frame
tickHiddenStops(time, m, ls, ps, vis, pending) ==
    IF ~vis
    THEN /\ mouse' = m
         /\ lines' = ls
         /\ paths' = ps
         /\ didWork' = FALSE
         /\ tickFrom' = NoTick
         /\ rawLog' = rawLog
         /\ rafMap' = pending
         /\ UNCHANGED <<animationFrame, nextHandle>>
    ELSE /\ mouse' = trackMouse(m)
         /\ lines' = movePoints(ls, mouse', noise', time)
         /\ paths' = drawLines(lines')
         /\ didWork' = TRUE
         /\ tickFrom' = [prev |-> rawLog.tick, took |-> rawLog.snap]
         /\ rawLog' = Logged(m)
         /\ animationFrame' = nextHandle
         /\ rafMap' = pending \cup {nextHandle}
         /\ nextHandle' = nextHandle + 1

\* a tick whose physics reads the cursor state of the frame before
tickStaleCursor(time, m, ls, ps, vis, pending) ==
    /\ IF ~vis
       THEN /\ mouse' = m
            /\ lines' = ls
            /\ paths' = ps
            /\ didWork' = FALSE
            /\ tickFrom' = NoTick
            /\ rawLog' = rawLog
       ELSE /\ mouse' = trackMouse(m)
            /\ lines' = movePoints(ls, m, noise', time)
            /\ paths' = drawLines(lines')
            /\ didWork' = TRUE
            /\ tickFrom' = [prev |-> rawLog.tick, took |-> rawLog.snap]
            /\ rawLog' = Logged(m)
    /\ animationFrame' = nextHandle
    /\ rafMap' = pending \cup {nextHandle}
    /\ nextHandle' = nextHandle + 1

\* tick(time) on mouse record m, grid ls and path elements ps, with
\* isVisible = vis; pending is the callback map when tick is entered
tick(time, m, ls, ps, vis, pending) ==
    /\ IF ~vis
       THEN /\ mouse' = m
            /\ lines' = ls
            /\ paths' = ps
            /\ didWork' = FALSE
            /\ tickFrom' = NoTick
            /\ rawLog' = rawLog
       ELSE /\ mouse' = trackMouse(m)
            /\ lines' = movePoints(ls, mouse', noise', time)
            /\ paths' = drawLines(lines')
            /\ didWork' = TRUE
            /\ tickFrom' = [prev |-> rawLog.tick, took |-> rawLog.snap]
            /\ rawLog' = Logged(m)
    /\ animationFrame' = nextHandle
    /\ rafMap' = pending \cup {nextHandle}
    /\ nextHandle' = nextHandle + 1

\* a mount that goes on although the svg was not found
connectedCallbackUnguarded(svgPresent, size, seed) ==
    /\ ~connected
    /\ connected' = TRUE
    /\ Called("connectedCallback")
    /\ threw' = FALSE
    /\ svg' = svgPresent
    /\ LET box == ClientRect(size)
           ls  == setLines(box.width, box.height)
       IN  /\ bounding' = box
           /\ noise' = NoiseOf[seed]
           /\ svgChildren' = svgChildren + Len(ls)
           /\ isVisible' = TRUE
           /\ bindGen' = bindGen + 1
           /\ winResize' = winResize \cup {bindGen'}
           /\ winMouseMove' = winMouseMove \cup {bindGen'}
           /\ elTouchMove' = elTouchMove \cup {bindGen'}
           /\ docVisibility' = docVisibility \cup {bindGen'}
           /\ tick(0, InitMouse, ls, NewPaths(Len(ls)), TRUE, rafMap)
           /\ ptrSinceMount' = FALSE
           /\ ptrSinceRebuild' = FALSE
           /\ ptrFirst' = "none"
           /\ UNCHANGED <<hidden, scrollY>>

\* the host inserts the element into the document
connectedCallback(svgPresent, size, seed) ==
    /\ ~connected
    /\ connected' = TRUE
    /\ Called("connectedCallback")
    /\ threw' = FALSE
    /\ svg' = svgPresent
    /\ IF ~svgPresent
       THEN UNCHANGED <<hidden, scrollY, rafMap, nextHandle, winResize,
                        winMouseMove, elTouchMove, docVisibility, svgChildren,
                        mouse, lines, paths, noise, isVisible, animationFrame,
                        bounding, bindGen, ptrSinceMount, ptrSinceRebuild, rawLog>>
            /\ didWork' = FALSE
            /\ tickFrom' = NoTick
            /\ ptrFirst' = "none"
       ELSE LET box == ClientRect(size)
                ls  == setLines(box.width, box.height)
            IN  /\ bounding' = box
                /\ noise' = NoiseOf[seed]
                /\ svgChildren' = svgChildren + Len(ls)
                /\ isVisible' = TRUE
                \* bindEvents
                /\ bindGen' = bindGen + 1
                /\ winResize' = winResize \cup {bindGen'}
                /\ winMouseMove' = winMouseMove \cup {bindGen'}
                /\ elTouchMove' = elTouchMove \cup {bindGen'}
                /\ docVisibility' = docVisibility \cup {bindGen'}
                /\ tick(0, InitMouse, ls, NewPaths(Len(ls)), TRUE, rafMap)
                /\ ptrSinceMount' = FALSE
                /\ ptrSinceRebuild' = FALSE
                /\ ptrFirst' = "none"
                /\ UNCHANGED <<hidden, scrollY>>

\* a teardown that cancels nothing
cancelledNone == {}

\* a teardown that cancels the frame before the pending one
cancelledStale == IF animationFrame > 1 THEN {animationFrame - 1} ELSE {}

\* the frame disconnectedCallback cancels
cancelled == IF animationFrame # 0 THEN {animationFrame} ELSE {}

\* the host removes the element from the document (or calls the callback again)
disconnectedCallback ==
    /\ connected' = FALSE
    /\ Called("disconnectedCallback")
    /\ threw' = FALSE
    /\ rafMap' = rafMap \ cancelled
    /\ winResize' = winResize \ {bindGen}
    /\ winMouseMove' = winMouseMove \ {bindGen}
    /\ elTouchMove' = elTouchMove \ {bindGen}
    /\ UNCHANGED <<hidden, scrollY, nextHandle, docVisibility, svgChildren,
                   fields, ptrSinceMount, ptrSinceRebuild, rawLog>>
    /\ didWork' = FALSE
    /\ tickFrom' = NoTick
    /\ ptrFirst' = "none"

\* window 'resize' reaches the element
onResize(size) ==
    /\ winResize # {}
    /\ Called("onResize")
    /\ threw' = FALSE
    /\ LET box == ClientRect(size)
           ls  == setLines(box.width, box.height)
       IN  /\ bounding' = box
           /\ lines' = ls
           /\ paths' = NewPaths(Len(ls))
           /\ svgChildren' = svgChildren - Len(paths) + Len(ls)
    /\ ptrSinceRebuild' = FALSE
    /\ ptrFirst' = "none"
    /\ UNCHANGED <<connected, hidden, scrollY, rafMap, nextHandle, winResize,
                   winMouseMove, elTouchMove, docVisibility, svg, mouse, noise,
                   isVisible, animationFrame, bindGen, ptrSinceMount, rawLog>>
    /\ didWork' = FALSE
    /\ tickFrom' = NoTick

\* window 'mousemove' reaches the element: pointer at client position c
onMouseMove(c) ==
    /\ winMouseMove # {}
    /\ Called("onMouseMove")
    /\ threw' = FALSE
    /\ mouse' = updateMousePosition(mouse, c.x, c.y + scrollY)
    /\ Pointed
    /\ UNCHANGED <<host, svg, lines, paths, noise, isVisible, animationFrame,
                   bounding, bindGen>>
    /\ didWork' = FALSE
    /\ tickFrom' = NoTick

\* 'touchmove' reaches the element: touches is the event's touch list
onTouchMove(touches) ==
    /\ elTouchMove # {}
    /\ Called("onTouchMove")
    /\ IF touches = <<>>
       THEN /\ threw' = TRUE
            /\ UNCHANGED <<mouse, ptrSinceMount, ptrSinceRebuild, rawLog>>
            /\ ptrFirst' = "none"
       ELSE /\ threw' = FALSE
            /\ mouse' = updateMousePosition(mouse, touches[1].x, touches[1].y)
            /\ Pointed
    /\ UNCHANGED <<host, svg, lines, paths, noise, isVisible, animationFrame,
                   bounding, bindGen>>
    /\ didWork' = FALSE
    /\ tickFrom' = NoTick

\* the page becomes hidden or visible; every registered closure runs
visibilitychange ==
    /\ hidden' = ~hidden
    /\ Called("visibilitychange")
    /\ threw' = FALSE
    /\ isVisible' = IF docVisibility # {} THEN ~hidden' ELSE isVisible
    /\ UNCHANGED <<connected, scrollY, rafMap, nextHandle, winResize,
                   winMouseMove, elTouchMove, docVisibility, svgChildren,
                   svg, mouse, lines, paths, noise, animationFrame, bounding,
                   bindGen, ptrSinceMount, ptrSinceRebuild, rawLog>>
    /\ didWork' = FALSE
    /\ tickFrom' = NoTick
    /\ ptrFirst' = "none"

\* the page scrolls vertically
scroll(y) ==
    /\ y # scrollY
    /\ scrollY' = y
    /\ Called("scroll")
    /\ threw' = FALSE
    /\ UNCHANGED <<connected, hidden, rafMap, nextHandle, winResize,
                   winMouseMove, elTouchMove, docVisibility, svgChildren,
                   fields, ptrSinceMount, ptrSinceRebuild, rawLog>>
    /\ didWork' = FALSE
    /\ tickFrom' = NoTick
    /\ ptrFirst' = "none"

\* the host runs the pending animation-frame callback h: tick(time)
frame(h, time) ==
    /\ h \in rafMap
    /\ Called("tick")
    /\ threw' = FALSE
    /\ noise' = noise
    /\ tick(time, mouse, lines, paths, isVisible, rafMap \ {h})
    /\ UNCHANGED <<connected, hidden, scrollY, winResize, winMouseMove,
                   elTouchMove, docVisibility, svgChildren, svg,
                   isVisible, bounding, bindGen, ptrSinceMount, ptrSinceRebuild>>
    /\ ptrFirst' = "none"

-----------------------------------------------------------------------------
(* The component in a page that mounts, resizes, moves the pointer, hides  *)
(* and shows itself, runs frames and unmounts, in any order.               *)

Mountable == bindGen < MaxMounts /\ nextHandle <= MaxHandle

Next ==
    \/ \E seed \in Seeds : Mountable /\ connectedCallback(TRUE, MountSize, seed)
    \/ \E seed \in Seeds : connectedCallback(FALSE, <<0, 0>>, seed)
    \/ disconnectedCallback
    \/ \E size \in ResizeSizes : onResize(size)
    \/ \E c \in Pointers : onMouseMove(c)
    \/ \E t \in Touches : onTouchMove(t)
    \/ visibilitychange
    \/ \E h \in rafMap : \E time \in Clock(h) : nextHandle <= MaxHandle /\ frame(h, time)

Spec == Init /\ [][Next]_vars

-----------------------------------------------------------------------------
(* The component mounted once in a visible page whose pointer jumps between *)
(* far-apart places from frame to frame, with resizes in between.          *)

TeleportNext ==
    \/ \E seed \in Seeds : bindGen = 0 /\ connectedCallback(TRUE, MountSize, seed)
    \/ \E c \in Pointers : onMouseMove(c)
    \/ \E size \in Sizes : onResize(size)
    \/ \E h \in rafMap : \E time \in Clock(h) :
          nextHandle <= MaxTeleportHandle /\ frame(h, time)

SpecTeleport == Init /\ [][TeleportNext]_vars

-----------------------------------------------------------------------------
(* The component mounted in containers of many sizes and resized among them *)

GridWidths == {1, 4, 5, 16, 100, 375, 1000, 1920}
GridHeights == {1, 12, 13, 48, 300, 800, 1080}
GridSizes == {<<w, h>> : w \in GridWidths, h \in GridHeights}

GridNext ==
    \/ \E size \in GridSizes : \E seed \in Seeds :
          bindGen = 0 /\ connectedCallback(TRUE, size, seed)
    \/ \E size \in GridSizes : onResize(size)

SpecGrid == Init /\ [][GridNext]_vars

-----------------------------------------------------------------------------
(* The component in a container that has collapsed to zero width or zero   *)
(* height (getBoundingClientRect never reports a negative size).           *)

DegenerateSizes == {<<0, 0>>, <<0, 10>>, <<10, 0>>}

DegenerateNext ==
    \/ \E size \in DegenerateSizes : \E seed \in Seeds :
          bindGen = 0 /\ connectedCallback(TRUE, size, seed)
    \/ \E size \in DegenerateSizes : onResize(size)
    \/ \E c \in Pointers : onMouseMove(c)
    \/ \E h \in rafMap : \E time \in Clock(h) : nextHandle <= MaxHandle /\ frame(h, time)

SpecDegenerate == Init /\ [][DegenerateNext]_vars

-----------------------------------------------------------------------------
(* The component mounted once in a page that scrolls vertically, between   *)
(* two frames                                                              *)

ScrollNext ==
    \/ \E seed \in Seeds : bindGen = 0 /\ connectedCallback(TRUE, MountSize, seed)
    \/ \E y \in Scrolls : scroll(y)
    \/ \E size \in ResizeSizes : onResize(size)
    \/ \E c \in Pointers : onMouseMove(c)
    \/ \E t \in Touches : onTouchMove(t)

SpecScroll == Init /\ [][ScrollNext]_vars

-----------------------------------------------------------------------------
(* The component mounted in a 1000 x 800 container; the pointer is put on  *)
(* the centre of the container once, and then frames run.                  *)

SettleSize == <<1000, 800>>
\* on-screen position of the centre of the container
Centre == [x |-> Origin.left + 500, y |-> Origin.top + 400]

SettleNext ==
    \/ \E seed \in Seeds : bindGen = 0 /\ connectedCallback(TRUE, SettleSize, seed)
    \/ lastCall = "connectedCallback" /\ onMouseMove(Centre)
    \/ \E h \in rafMap : \E time \in Clock(h) :
          ptrSinceMount /\ nextHandle <= MaxSettleFrames + 1 /\ frame(h, time)

SpecSettle == Init /\ [][SettleNext]_vars

-----------------------------------------------------------------------------
(* A Noise instance on its own: it is given as a table or constructed from *)
(* a seed, and perlin2 is called on it.                                    *)

\* new Noise(seed) replaces the instance
construct(seed) ==
    /\ genId < MaxInstances
    /\ gen' = NoiseOf[seed]
    /\ genSeed' = seed
    /\ genId' = genId + 1
    /\ lastCall' = "Noise"
    /\ UNCHANGED <<sampled, earlier, host, fields, unmounts, threw, didWork,
                   tickFrom, hadOffset, ptrSinceMount, ptrSinceRebuild, ptrFirst, rawLog,
                   app>>

\* a perlin2 that also moves every entry of the table one place down
sampleAdvancing(x, y) ==
    /\ gen.perm # <<>>
    /\ sampled' = <<[seed |-> genSeed, id |-> genId, x |-> x, y |-> y,
                     at |-> corners(gen, x, y), value |-> perlin2(gen, x, y)]>>
    /\ earlier' \in {earlier, sampled}
    /\ gen' = tables([i \in 1..256 |-> gen.perm[(i % 256) + 1]])
    /\ lastCall' = "perlin2"
    /\ UNCHANGED <<genSeed, genId, host, fields, unmounts, threw, didWork,
                   tickFrom, hadOffset, ptrSinceMount, ptrSinceRebuild, ptrFirst, rawLog,
                   app>>

\* gen.perlin2(x, y): the call reads the tables and assigns no field
sample(x, y) ==
    /\ gen.perm # <<>>
    /\ sampled' = <<[seed |-> genSeed, id |-> genId, x |-> x, y |-> y,
                     at |-> corners(gen, x, y), value |-> perlin2(gen, x, y)]>>
    /\ earlier' \in {earlier, sampled}
    /\ gen' = gen
    /\ lastCall' = "perlin2"
    /\ UNCHANGED <<genSeed, genId, host, fields, unmounts, threw, didWork,
                   tickFrom, hadOffset, ptrSinceMount, ptrSinceRebuild, ptrFirst, rawLog,
                   app>>

NoiseInit ==
    /\ ElementInit
    /\ gen \in {GivenTable}
    /\ genSeed = NoSeed
    /\ genId = 0
    /\ sampled = <<>>
    /\ earlier = <<>>
    /\ AppInit

NoiseNext ==
    \/ \E seed \in NoiseSeeds : construct(seed)
    \/ \E x \in Coords : \E y \in Coords : sample(x, y)

SpecNoise == NoiseInit /\ [][NoiseNext]_vars

-----------------------------------------------------------------------------
(* The App controller of portfolio/js/main.js on a page that has the nav,  *)
(* the menu button, the mobile menu and two sections.  Positions are whole *)
(* pixels.                                                                 *)

\* the href of the anchors of the page ('#missing' has no target)
Anchors == {"#", "#missing", "#about", "#projects"}
\* the sections anchors point to, with the page position of their top edge
Sections == ("#about" :> 400) @@ ("#projects" :> 1200)
\* the keys the user presses
Keys == {"Escape", "Enter"}
\* the offsets the user scrolls the page to, in pixels
AppScrolls == {0, 30, 60, 700}

\* history kept by every call of the App controller; the <a-waves> element
\* and the Noise instance are not involved
AppCalled(name) ==
    /\ lastCall' = name
    /\ UNCHANGED <<connected, hidden, rafMap, nextHandle, winResize, winMouseMove,
                   elTouchMove, docVisibility, svgChildren, fields, unmounts, threw,
                   didWork, hadOffset, ptrSinceMount, ptrSinceRebuild, ptrFirst,
                   rawLog, tickFrom, bench>>

\* the 'scroll' listener of setupNavigation, the page being at offset y
scrollListener(y) ==
    /\ lastScroll' = y
    /\ ticking' = TRUE
    /\ UNCHANGED navScrolled

\* the user scrolls the page to offset y (a page whose body has overflow
\* 'hidden' does not scroll), and the 'scroll' listener runs
windowScroll(y) ==
    /\ y # scrollY
    /\ bodyOverflow # "hidden"
    /\ AppCalled("windowScroll")
    /\ scrollY' = y
    /\ scrollListener(y)
    /\ UNCHANGED <<menuBtnActive, mobileMenuActive, bodyOverflow>>

\* the frame callback the 'scroll' listener requested
navFrame ==
    /\ ticking
    /\ AppCalled("navFrame")
    /\ navScrolled' = (lastScroll > ScrolledBeyond)
    /\ ticking' = FALSE
    /\ UNCHANGED <<scrollY, lastScroll, menuBtnActive, mobileMenuActive, bodyOverflow>>

\* 'click' on the menu button
menuBtnClick ==
    /\ AppCalled("menuBtnClick")
    /\ menuBtnActive' = ~menuBtnActive
    /\ mobileMenuActive' = ~mobileMenuActive
    /\ bodyOverflow' = IF mobileMenuActive' THEN "hidden" ELSE ""
    /\ UNCHANGED <<scrollY, navScrolled, lastScroll, ticking>>

\* 'keydown' on the document
keydown(key) ==
    /\ AppCalled("keydown")
    /\ IF key = "Escape" /\ mobileMenuActive
       THEN /\ menuBtnActive' = FALSE
            /\ mobileMenuActive' = FALSE
            /\ bodyOverflow' = ""
       ELSE UNCHANGED <<menuBtnActive, mobileMenuActive, bodyOverflow>>
    /\ UNCHANGED <<scrollY, navScrolled, lastScroll, ticking>>

\* 'click' on an anchor whose href is href: the menu is closed if it is
\* open, and window.scrollTo brings the target's top edge to navHeight
\* pixels below the top of the window (the page does not scroll above 0);
\* the 'scroll' listener runs if the page has moved
anchorClick(href) ==
    /\ AppCalled("anchorClick")
    /\ IF href = "#" \/ href \notin DOMAIN Sections
       THEN UNCHANGED <<scrollY, app>>
       ELSE /\ IF mobileMenuActive
               THEN /\ mobileMenuActive' = FALSE
                    /\ menuBtnActive' = FALSE
               ELSE UNCHANGED <<mobileMenuActive, menuBtnActive>>
            /\ bodyOverflow' = bodyOverflow
            /\ scrollY' = Max(0, Sections[href] - navHeight)
            /\ IF scrollY' # scrollY
               THEN scrollListener(scrollY')
               ELSE UNCHANGED <<navScrolled, lastScroll, ticking>>

AppNext ==
    \/ \E y \in AppScrolls : windowScroll(y)
    \/ navFrame
    \/ menuBtnClick
    \/ \E key \in Keys : keydown(key)
    \/ \E href \in Anchors : anchorClick(href)

SpecApp == Init /\ [][AppNext]_vars

-----------------------------------------------------------------------------
(* Properties *)

\* C1: whatever the pointer and the resizes did, between frames every
\* point's cursor offset lies in [-80, 80] pixels on both axes.
C1_DisplacementClamp ==
    \A i \in DOMAIN lines : \A j \in DOMAIN lines[i] :
        /\ -MaxOffset * Scale <= lines[i][j].cursor.x
        /\ lines[i][j].cursor.x <= MaxOffset * Scale
        /\ -MaxOffset * Scale <= lines[i][j].cursor.y
        /\ lines[i][j].cursor.y <= MaxOffset * Scale

\* C1 witness: a frame has just run in which the pointer's push carried a
\* point to the limit of 80 pixels, where the clamp held it.
C1_Witness ==
    /\ lastCall = "tick"
    /\ mouse.v = 0
    /\ mouse.vs > 0
    /\ \E i \in DOMAIN lines : \E j \in DOMAIN lines[i] :
          /\ lines[i][j].cursor.x = MaxOffset * Scale
          /\ lines[i][j].cursor.vx > 0

\* C2: disconnectedCallback never throws and leaves no animation frame
\* pending, the second time in a row as the first, also after a mount that
\* found no svg.
C2_IdempotentTeardown ==
    lastCall = "disconnectedCallback" => (~threw /\ rafMap = {})

\* C2 witness: the element was mounted, unmounted, mounted again without an
\* svg, and then unmounted twice in a row, holding a stale frame handle.
C2_Witness ==
    /\ lastCall = "disconnectedCallback"
    /\ unmounts = 2
    /\ animationFrame # 0
    /\ ~svg
    /\ ~threw
    /\ rafMap = {}

\* C3: while the element is unmounted no frame is pending, and no step
\* taken between an unmount and the next mount runs tick.
C3_NoFrameAfterUnmount ==
    [][/\ ~connected' => rafMap' = {}
       /\ (~connected /\ ~connected') =>
              (lastCall' # "tick" /\ nextHandle' = nextHandle)]_vars

\* C3 witness: after a mount that started the loop and an unmount, the page
\* changed visibility, and still no frame is pending and no handle was issued.
C3_Witness ==
    /\ ~connected
    /\ lastCall = "visibilitychange"
    /\ animationFrame # 0
    /\ nextHandle = animationFrame + 1
    /\ rafMap = {}

\* C4 (as claimed): once unmounted, no listener of the element is left
\* registered, and no step changes a field of the component.
C4_AllListenersDetached ==
    [][/\ ~connected' => /\ winResize' = {}
                         /\ winMouseMove' = {}
                         /\ elTouchMove' = {}
                         /\ docVisibility' = {}
       /\ (~connected /\ ~connected') => fields' = fields]_vars

\* C5 (as claimed): a frame callback that runs while the page is hidden
\* leaves exactly one frame pending and does no smoothing, no physics and
\* no drawing.
C5_HiddenFramesSkipWork ==
    [][(lastCall' = "tick" /\ hidden) =>
          /\ Cardinality(rafMap') = 1
          /\ ~didWork'
          /\ mouse' = mouse
          /\ lines' = lines
          /\ paths' = paths]_vars

\* C6: exactly one frame is pending while the element is mounted on its svg
\* and none otherwise.
C6_OnePendingFrameIffMounted ==
    Cardinality(rafMap) = IF connected /\ svg THEN 1 ELSE 0

\* C6 witness: the element was unmounted and mounted again, a frame has run
\* since, and one frame is pending.
C6_Witness ==
    /\ connected
    /\ svg
    /\ bindGen = 2
    /\ lastCall = "tick"
    /\ Cardinality(rafMap) = 1

\* C7: right after a resize every point has cursor offset and cursor
\* velocity zero.
C7_ResizeDiscardsCursorState ==
    lastCall = "onResize" =>
        \A i \in DOMAIN lines : \A j \in DOMAIN lines[i] :
            lines[i][j].cursor = ZeroCursor

\* C7 witness: a resize has just rebuilt a grid some of whose points were
\* displaced by the pointer.
C7_Witness ==
    /\ lastCall = "onResize"
    /\ hadOffset
    /\ mouse.set
    /\ mouse.lx = mouse.x
    /\ mouse.sx # mouse.x
    /\ mouse.v > 0
    /\ lines # <<>>
    /\ ~Displaced(lines)

\* C8: for a container of positive width and height the grid has
\* ceil((w + 200) / 12) + 1 lines of ceil((h + 60) / 36) + 1 points each;
\* a 1000 x 800 container has 101 lines of 25 points.
C8_GridCounts ==
    (bounding.width > 0 /\ bounding.height > 0) =>
        LET gaps == Len(lines) - 1
            rows == Len(lines[1]) - 1
        IN  /\ xGap * Scale * gaps >= bounding.width + PadWidth * Scale
            /\ xGap * Scale * (gaps - 1) < bounding.width + PadWidth * Scale
            /\ yGap * Scale * rows >= bounding.height + PadHeight * Scale
            /\ yGap * Scale * (rows - 1) < bounding.height + PadHeight * Scale
            /\ \A i \in DOMAIN lines : Len(lines[i]) = rows + 1
            /\ (bounding.width = 1000 * Scale /\ bounding.height = 800 * Scale)
                  => (Len(lines) = 101 /\ rows + 1 = 25)

\* C8 witness: a resize to 1000 x 800 has just built 101 lines of 25 points.
C8_Witness ==
    /\ lastCall = "onResize"
    /\ bounding.width = 1000 * Scale
    /\ bounding.height = 800 * Scale
    /\ Len(lines) = 101
    /\ Len(lines[101]) = 25

\* C9: for a container of positive width and height the first and the last
\* line lie symmetric about w / 2, and on every line the first and the last
\* point lie symmetric about h / 2.
C9_GridCentred ==
    (bounding.width > 0 /\ bounding.height > 0) =>
        /\ lines[1][1].x + lines[Len(lines)][1].x = bounding.width
        /\ \A i \in DOMAIN lines :
              lines[i][1].y + lines[i][Len(lines[i])].y = bounding.height

\* C9 witness: a resize has just built a grid that overflows the container
\* on all four sides by the same amount left and right, top and bottom.
C9_Witness ==
    /\ lastCall = "onResize"
    /\ bounding.width = 375 * Scale
    /\ bounding.height = 300 * Scale
    /\ lines[1][1].x < 0
    /\ lines[Len(lines)][1].x - bounding.width = 0 - lines[1][1].x
    /\ lines[1][1].y < 0
    /\ lines[1][Len(lines[1])].y - bounding.height = 0 - lines[1][1].y

PointerCall == lastCall \in {"onMouseMove", "onTouchMove"} /\ ~threw

Snapped ==
    /\ mouse.sx = mouse.x
    /\ mouse.sy = mouse.y
    /\ mouse.lx = mouse.x
    /\ mouse.ly = mouse.y

Kept ==
    /\ mouse'.sx = mouse.sx
    /\ mouse'.sy = mouse.sy
    /\ mouse'.lx = mouse.lx
    /\ mouse'.ly = mouse.ly

\* C10 (as claimed): the first updateMousePosition call after a mount and
\* the first after every resize set the smoothed and the last position to
\* the raw position; every other call leaves them alone.
C10_SnapAfterEveryBuild ==
    [][PointerCall' =>
          IF ~ptrSinceMount \/ ~ptrSinceRebuild THEN Snapped' ELSE Kept]_vars

\* C10 (amended): only the first updateMousePosition call after a mount
\* sets the smoothed and the last position to the raw position; every
\* other call, the first after a resize included, leaves them alone.
C10_SnapOnlyAfterMount ==
    [][PointerCall' => IF ~ptrSinceMount THEN Snapped' ELSE Kept]_vars

\* C10 witness: the first pointer call after a resize, not the first after
\* the mount, has left the smoothed position away from the raw position.
C10_Witness ==
    /\ lastCall = "onMouseMove"
    /\ ptrFirst = "rebuild"
    /\ mouse.sx # mouse.x
    /\ mouse.lx # mouse.x

HandlerCall == lastCall \in {"onMouseMove", "onTouchMove", "onResize"}

\* C11: the mouse-move, touch-move and resize handlers run neither the
\* physics nor the drawing: a pointer handler leaves every point and every
\* path's geometry as it was, a resize leaves the new points at rest and the
\* new paths without geometry; only a later frame writes geometry.
C11_HandlersNeverDraw ==
    [][HandlerCall' =>
          /\ ~didWork'
          /\ rafMap' = rafMap
          /\ IF lastCall' = "onResize"
             THEN /\ \A i \in DOMAIN paths' : paths'[i] = <<>>
                  /\ \A i \in DOMAIN lines' : \A j \in DOMAIN lines'[i] :
                        /\ lines'[i][j].wave = ZeroWave
                        /\ lines'[i][j].cursor = ZeroCursor
             ELSE /\ paths' = paths
                  /\ lines' = lines]_vars

\* C11 witness: the pointer has just moved away from the smoothed position
\* over a grid whose geometry an earlier frame wrote; the geometry still
\* shows the state of that frame and one frame is pending.
C11_Witness ==
    /\ lastCall = "onMouseMove"
    /\ mouse.x # mouse.sx
    /\ Cardinality(rafMap) = 1
    /\ paths # <<>>
    /\ paths = drawLines(lines)

EventCall == lastCall \in {"onMouseMove", "onTouchMove", "onResize", "visibilitychange"}

VelocityKept ==
    /\ mouse'.v = mouse.v
    /\ mouse'.vs = mouse.vs
    /\ mouse'.a = mouse.a

\* C12 (as claimed): no pointer, touch, resize or visibility handler writes
\* the smoothed position, the last position, the velocity, the smoothed
\* velocity or the angle; only the frame loop does.
C12_FrameLoopOnlyWriter ==
    [][EventCall' => (Kept /\ VelocityKept)]_vars

\* C12 (amended): no handler writes the velocity, the smoothed velocity or
\* the angle; the smoothed and the last position are written by a handler
\* only in the first pointer or touch call after a mount, which sets them to
\* the raw position.
C12_HandlersWriteOnlyFirstSnap ==
    [][EventCall' =>
          /\ VelocityKept
          /\ IF PointerCall' /\ ~ptrSinceMount THEN Snapped' ELSE Kept]_vars

\* C12 witness: the first touch after a mount has just set the smoothed and
\* the last position, and the smoothed velocity the mount's frame computed
\* is still there.
C12_Witness ==
    /\ lastCall = "onTouchMove"
    /\ ~threw
    /\ ptrFirst = "mount"
    /\ Snapped
    /\ mouse.sx = 60 * Scale - bounding.left
    /\ mouse.vs > 0

\* C13 (as claimed): with a container of zero width or zero height no call
\* throws, every emitted coordinate is a number, and the grid is empty or
\* has a single line.
C13_DegenerateGridSmall ==
    (svg /\ (bounding.width <= 0 \/ bounding.height <= 0)) =>
        /\ ~threw
        /\ \A i \in DOMAIN paths : \A k \in DOMAIN paths[i] :
              paths[i][k].x \in Int /\ paths[i][k].y \in Int
        /\ Len(lines) <= 1

\* C14 (as claimed): a touch-move event is handled without throwing, also
\* when its touch list is empty (the one touch list for which the handler
\* has no touch to read).
C14_EmptyTouchListHandled ==
    lastCall = "onTouchMove" => ~threw

\* C15: a mount that finds no svg returns without throwing, registers no
\* listener, requests no frame and builds no grid; while the element is
\* connected without an svg none of its handlers is registered and no frame
\* is pending; and the unmount that follows does not throw.
C15_AbsentSurfaceInert ==
    [][/\ (lastCall' = "connectedCallback" /\ ~svg') =>
              /\ ~threw'
              /\ ~didWork'
              /\ <<winResize', winMouseMove', elTouchMove', docVisibility'>>
                    = <<winResize, winMouseMove, elTouchMove, docVisibility>>
              /\ <<rafMap', nextHandle', svgChildren'>> = <<rafMap, nextHandle, svgChildren>>
              /\ <<lines', paths', mouse'>> = <<lines, paths, mouse>>
       /\ (connected' /\ ~svg') =>
              /\ rafMap' = {}
              /\ winResize' = {}
              /\ winMouseMove' = {}
              /\ elTouchMove' = {}
       /\ (lastCall' = "disconnectedCallback" /\ ~svg) => ~threw']_vars

\* C15 witness: the element was inserted without an svg and removed again;
\* nothing was ever registered, requested or built.
C15_Witness ==
    /\ lastCall = "disconnectedCallback"
    /\ unmounts = 1
    /\ ~svg
    /\ ~threw
    /\ bindGen = 0
    /\ nextHandle = 1
    /\ lines = <<>>
    /\ docVisibility = {}

\* C16 (as claimed): after a mouse-move or a touch-move at the on-screen
\* place c, the raw position is the page position of c minus the corner of
\* the cached bounding box, (pageX - left, pageY - top), whatever the scroll
\* offset, and so the same for both kinds of event.
C16_LocalPointer ==
    PointerCall =>
        \E c \in Pointers :
            /\ mouse.x = c.x * Scale - bounding.left
            /\ mouse.y = (c.y + scrollY) * Scale - bounding.top

\* the base position of point p lies within the minimum influence radius of
\* the smoothed cursor
NearCursor(p) == Hypot(p.x - mouse.sx, p.y - mouse.sy) < MinRadius * Scale

\* C17: with the pointer at rest on the centre of a 1000 x 800 container,
\* after every frame that follows, the 120th included, some point whose base
\* position is within 175 pixels of the cursor has a nonzero cursor offset.
C17_CursorLeavesTrace ==
    (lastCall = "tick" /\ ptrSinceMount) =>
        \E i \in DOMAIN lines : \E j \in DOMAIN lines[i] :
            /\ NearCursor(lines[i][j])
            /\ (lines[i][j].cursor.x # 0 \/ lines[i][j].cursor.y # 0)

\* C17 witness: 120 frames have run since the pointer was put on the centre
\* (the mount's own tick requested handle 1), the pointer has not moved, and
\* a point near the cursor is off its base position.
C17_Witness ==
    /\ lastCall = "tick"
    /\ nextHandle = 120 + 2
    /\ mouse.x = 500 * Scale
    /\ mouse.y = 400 * Scale
    /\ mouse.v = 0
    /\ \E i \in DOMAIN lines : \E j \in DOMAIN lines[i] :
          NearCursor(lines[i][j]) /\ lines[i][j].cursor.x # 0

\* the cursor velocity a point with cursor c has after a frame in which no
\* cursor force acts on it: spring and friction only
Coasting(c) ==
    [vx |-> Frac(c.vx + Frac(0 - c.x, 4, 1000), 92, 100),
     vy |-> Frac(c.vy + Frac(0 - c.y, 4, 1000), 92, 100)]

\* C18: in a frame, a point whose base position is at distance d >= l from
\* the smoothed cursor gets no cursor force: its cursor velocity changes by
\* spring and friction only, and if its cursor offset and velocity were zero
\* they are zero after the frame (so a point never within l since the grid
\* was built stays at zero).
C18_NoForceBeyondRadius ==
    [][(lastCall' = "tick" /\ didWork') =>
          \A i \in DOMAIN lines : \A j \in DOMAIN lines[i] :
              LET p == lines[i][j]
                  q == lines'[i][j]
                  d == Hypot(p.x - mouse'.sx, p.y - mouse'.sy)
                  l == Max(MinRadius * Scale, mouse'.vs)
              IN  d >= l =>
                     /\ q.cursor.vx = Coasting(p.cursor).vx
                     /\ q.cursor.vy = Coasting(p.cursor).vy
                     /\ (p.cursor = ZeroCursor => q.cursor = ZeroCursor)]_vars

\* C18 witness: after a resize the pointer was first put far to the right
\* of the grid; a frame has run with a positive smoothed velocity, every
\* point was farther than l from the cursor, and every point is still at
\* zero.
C18_Witness ==
    /\ lastCall = "tick"
    /\ didWork
    /\ mouse.vs > 0
    /\ mouse.sx = 960 * Scale
    /\ lines # <<>>
    /\ \A i \in DOMAIN lines : \A j \in DOMAIN lines[i] :
          /\ ~NearCursor(lines[i][j])
          /\ lines[i][j].cursor = ZeroCursor

\* C19 (as claimed): the geometry written for a line of n points is one
\* move-to at the first point followed by n - 1 line-to commands, one for
\* each later point in order, and it is written to that line's own path.
C19_MoveThenLines ==
    \A i \in DOMAIN paths :
        paths[i] # <<>> =>
            LET n == Len(lines[i])
            IN  /\ Len(paths[i]) = n
                /\ paths[i][1].op = "M"
                /\ \A k \in 2..Len(paths[i]) : paths[i][k].op = "L"
                /\ \A k \in 2..n :
                      LET at == moved(lines[i][k], k # n)
                      IN  paths[i][k].x = at.x /\ paths[i][k].y = at.y

\* C20 (as claimed): every position written for a line is the base position
\* plus the wave offset plus the cursor offset of one of its points, or, for
\* the last point only, the base position plus the wave offset.
C20_CursorOffsetEmitted ==
    \A i \in DOMAIN paths : \A c \in DOMAIN paths[i] :
        \E k \in DOMAIN lines[i] :
            LET at == moved(lines[i][k], k # Len(lines[i]))
            IN  paths[i][c].x = at.x /\ paths[i][c].y = at.y

Perm256(p) == \A v \in 0..255 : \E i \in 1..256 : p[i] = v

\* C21 (as claimed): the tables an instance is constructed with from a seed
\* in [0, 1) have 512 integer entries in 0..255, the first 256 hold every
\* value of 0..255 (each exactly once), entries 256..511 repeat entries
\* 0..255, and no perlin2 call changes the tables.
C21_TableIsPermutation ==
    [][/\ genSeed' # NoSeed =>
              /\ Len(gen'.perm) = 512
              /\ \A i \in 1..512 : gen'.perm[i] \in 0..255
              /\ Perm256(gen'.perm)
              /\ \A i \in 1..256 : gen'.perm[i + 256] = gen'.perm[i]
       /\ lastCall' = "perlin2" => gen' = gen]_vars

\* C22: a perlin2 call returns the value every earlier call with the same
\* arguments returned on an instance constructed from the same seed, the
\* same instance or another one, whatever calls were made in between.
C22_SameSeedSameValue ==
    (sampled # <<>> /\ earlier # <<>>) =>
        ((/\ sampled[1].seed = earlier[1].seed
          /\ sampled[1].x = earlier[1].x
          /\ sampled[1].y = earlier[1].y) => sampled[1].value = earlier[1].value)

\* C22 witness: the same point was sampled on two instances constructed
\* from the same seed, and both calls returned the same nonzero value.
C22_Witness ==
    /\ sampled # <<>>
    /\ earlier # <<>>
    /\ sampled[1].seed = 30000
    /\ earlier[1].seed = 30000
    /\ sampled[1].id # earlier[1].id
    /\ sampled[1].x = earlier[1].x
    /\ sampled[1].y = earlier[1].y
    /\ sampled[1].value = earlier[1].value
    /\ sampled[1].value # 0

\* C23: whatever the table, every perlin2 call returns a value in [-1, 1].
C23_SampleInUnitRange ==
    sampled # <<>> => (0 - Scale <= sampled[1].value /\ sampled[1].value <= Scale)

\* C23 witness: at the centre of a cell whose four corner gradients all
\* point to the centre, perlin2 has returned 1, the end of the range.
C23_Witness ==
    /\ sampled # <<>>
    /\ sampled[1].seed = NoSeed
    /\ sampled[1].x = 500
    /\ sampled[1].y = 500
    /\ sampled[1].value = Scale

\* C30: whatever the table (entries in 0..255) and the arguments, negative
\* ones included, the cell X, Y of a perlin2 call lies in 0..255, X + 1 and
\* the hashes A, A + 1, B, B + 1 lie in 0..511, and every permMod12 entry
\* lies in 0..11: every index read is inside its table.
C30_LookupsInBounds ==
    /\ \A i \in DOMAIN gen.perm : gen.perm[i] \in 0..255
    /\ \A i \in DOMAIN gen.permMod12 : gen.permMod12[i] \in 0..11
    /\ gen.perm # <<>> => (Len(gen.perm) = 512 /\ Len(gen.permMod12) = 512)
    /\ sampled # <<>> =>
          LET c == sampled[1].at
          IN  /\ c.X \in 0..255
              /\ c.Y \in 0..255
              /\ c.X + 1 \in 0..511
              /\ {c.A, c.A + 1, c.B, c.B + 1} \subseteq 0..511

\* C30 witness: perlin2 was called at (-0.5, -0.5) on a table whose entry
\* 255 is 255; the cell is (255, 255), X + 1 is 256 and A + 1 is 511, the
\* last entry of the table.
C30_Witness ==
    /\ sampled # <<>>
    /\ sampled[1].x < 0
    /\ sampled[1].y < 0
    /\ sampled[1].at.X = 255
    /\ sampled[1].at.Y = 255
    /\ sampled[1].at.A + 1 = 511
    /\ sampled[1].at.B = 12 + 255

FrameRan == lastCall = "tick" /\ didWork

\* C24 (as claimed): after every active frame callback the smoothed velocity
\* lies in [0, 100] and the velocity is the distance between the raw pointer
\* position at this frame and the raw position at the previous active tick.
C24_VelocityFromPreviousFrame ==
    FrameRan =>
        /\ 0 <= mouse.vs
        /\ mouse.vs <= MaxVelocity * Scale
        /\ mouse.v = Hypot(rawLog.tick.x - tickFrom.prev.x, rawLog.tick.y - tickFrom.prev.y)

\* C24 (amended): after every active frame callback the smoothed velocity
\* lies in [0, 100] and the velocity is the distance between the raw pointer
\* position at this frame and the last position: the raw position at the
\* previous active tick, or, if the first pointer call after the mount came
\* since that tick, the position that call snapped to.
C24_VelocityFromLastPosition ==
    FrameRan =>
        LET from == IF tickFrom.took # <<>> THEN tickFrom.took[1] ELSE tickFrom.prev
        IN  /\ 0 <= mouse.vs
            /\ mouse.vs <= MaxVelocity * Scale
            /\ mouse.v = Hypot(rawLog.tick.x - from.x, rawLog.tick.y - from.y)

\* C24 witness: between two active frames the first pointer call after the
\* mount snapped the last position to one place and a second call moved
\* the pointer 1000 pixels away; the frame measured those 1000 pixels, not
\* the distance from where the pointer was at the previous tick, and the
\* smoothed velocity reached its cap.
C24_Witness ==
    /\ FrameRan
    /\ tickFrom.took # <<>>
    /\ tickFrom.took[1] # tickFrom.prev
    /\ tickFrom.took[1] # rawLog.tick
    /\ mouse.v = Hypot(1000 * Scale, 0)
    /\ mouse.vs = MaxVelocity * Scale

\* C25: an active frame callback first updates the cursor state, then moves
\* every point with the cursor state it has just written, then writes the
\* geometry of every line from the points it has just moved, and then
\* requests exactly one frame; so all the points drawn are of this frame.
C25_FrameStepsInOrder ==
    [][(lastCall' = "tick" /\ didWork') =>
          /\ mouse' = trackMouse(mouse)
          /\ lines' = movePoints(lines, mouse', noise, FrameMs * animationFrame)
          /\ paths' = drawLines(lines')
          /\ Cardinality(rafMap' \ rafMap) = 1
          /\ rafMap' \ rafMap = {animationFrame'}
          /\ nextHandle' = nextHandle + 1]_vars

\* C25 witness: a frame has run after the pointer moved; the cursor state
\* shows the move, some point is pushed by it, the geometry is that of the
\* points as they are now, and one frame is pending.
C25_Witness ==
    /\ FrameRan
    /\ mouse.v > 0
    /\ mouse.lx = mouse.x
    /\ mouse.sx # mouse.x
    /\ Displaced(lines)
    /\ paths = drawLines(lines)
    /\ rafMap = {animationFrame}

\* C26: a frame callback, hidden or not, leaves the number of lines, the
\* number of points of every line and every point's base position as they
\* were; an active one integrates every point's cursor velocity and offset
\* forward from their values of the frame before (cursor force, spring,
\* friction, step, clamp); and a mouse-move or touch-move handler leaves
\* every field of every point as it was.
C26_PointsPersist ==
    [][/\ lastCall' = "tick" =>
              /\ Len(lines') = Len(lines)
              /\ \A i \in DOMAIN lines :
                    /\ Len(lines'[i]) = Len(lines[i])
                    /\ \A j \in DOMAIN lines[i] :
                          LET p == lines[i][j]
                              q == lines'[i][j]
                              g == cursorForce(p, mouse')
                          IN  /\ q.x = p.x
                              /\ q.y = p.y
                              /\ didWork' =>
                                    /\ q.cursor.vx = Frac(p.cursor.vx + g.x
                                          + Frac(0 - p.cursor.x, 4, 1000), 92, 100)
                                    /\ q.cursor.vy = Frac(p.cursor.vy + g.y
                                          + Frac(0 - p.cursor.y, 4, 1000), 92, 100)
                                    /\ q.cursor.x = Clamp(p.cursor.x + 2 * q.cursor.vx)
                                    /\ q.cursor.y = Clamp(p.cursor.y + 2 * q.cursor.vy)
                              /\ ~didWork' => q = p
       /\ lastCall' \in {"onMouseMove", "onTouchMove"} => lines' = lines]_vars

\* C26 witness: a frame has run on a grid that the frames before had
\* already displaced; some point has an offset that is not the step of this
\* frame alone, so part of it was carried over.
C26_Witness ==
    /\ FrameRan
    /\ hadOffset
    /\ \E i \in DOMAIN lines : \E j \in DOMAIN lines[i] :
          /\ lines[i][j].cursor.vx # 0
          /\ Abs(lines[i][j].cursor.x) < MaxOffset * Scale
          /\ lines[i][j].cursor.x # 2 * lines[i][j].cursor.vx

\* C27 (as claimed): whatever mounts, resizes and unmounts have happened,
\* there are as many path elements in this.paths as lines, and the path
\* elements attached to the svg are as many: none is left over from an
\* earlier build.
C27_NoOrphanPaths ==
    /\ Len(paths) = Len(lines)
    /\ svgChildren = Len(lines)

\* C28 (as claimed): as long as no mouse-move or touch-move has reached the
\* element since it was mounted, every point's cursor offset and cursor
\* velocity are zero, after the mount and after every frame.
C28_RestWithoutPointer ==
    ~ptrSinceMount => ~Displaced(lines)

C31_ScrollLockedIffMenuOpen ==
    (bodyOverflow = "hidden") <=> mobileMenuActive

====
